---- MODULE Spec2Model ----
(***************************************************************************)
(* PrecinctStrategyEngine (strategy_engine.py): a list of precinct dicts   *)
(* kept in memory and rewritten as one JSON document on every mutation.    *)
(*                                                                         *)
(* `data` is the list bound to self.data, as the sequence of the dicts it   *)
(* holds.  The store hands out references to that list and to its dicts:   *)
(* `caller` says which of them the calling code still holds, a dict being  *)
(* named by its position in self.data.  The backing file is a sequence of  *)
(* JSON tokens, or absent.                                                 *)
(***************************************************************************)
EXTENDS Integers, Sequences, FiniteSets, TLC

(* ------------------------------ bounds -------------------------------- *)
MaxRecs == 2        \* add_precinct is not called on a longer list
MaxClock == 1       \* last clock reading the model reaches
MaxFaults == 1      \* writes that fail in one run
MaxCallerWrites == 1 \* writes of the calling code through references it kept
NumThreads == 2     \* threads calling the store at the same time
MaxCalls == 1       \* calls one thread makes

(* ------------------------------ values -------------------------------- *)
Ids == {"p1", "p2"}
None == 0

\* dict insertion order of the three fields the model uses
FieldOrder == <<"precinct_id", "name", "last_updated">>

EmptyDict == [f \in {} |-> ""]

\* datetime.now().isoformat() for the clock reading t
IsoFormat(t) == "2026-01-01T00:00:0" \o ToString(t)

\* a last_updated value that is not a reading of the clock of this run: one
\* supplied by a caller, or found in the file
CallerStamp == "1999-12-31T00:00:00"

\* dict.update(u) that drops what u does not name (the id apart)
DictOverwrite(p, u) ==
  [f \in {"precinct_id"} \cup (DOMAIN u) |-> IF f \in DOMAIN u THEN u[f] ELSE p[f]]

\* dict.update(u) and dict[k] = v
DictUpdate(p, u) ==
  [f \in (DOMAIN p) \cup (DOMAIN u) |-> IF f \in DOMAIN u THEN u[f] ELSE p[f]]

\* dict.setdefault(k, v): an existing value stays
DictSetDefault(p, k, v) ==
  [f \in (DOMAIN p) \cup {k} |-> IF f \in DOMAIN p THEN p[f] ELSE v]

DictSet(p, k, v) == [f \in (DOMAIN p) \cup {k} |-> IF f = k THEN v ELSE p[f]]

(* --------------------------- JSON documents --------------------------- *)
LB == <<"punct", "[">>
RB == <<"punct", "]">>
LC == <<"punct", "{">>
RC == <<"punct", "}">>
Str(s) == <<"string", s>>
IsStr(tok) == tok[1] = "string"

RECURSIVE EncodeFields(_, _)
EncodeFields(r, fs) ==
  IF fs = <<>> THEN <<>>
  ELSE (IF Head(fs) \in DOMAIN r
          THEN <<Str(Head(fs)), Str(r[Head(fs)])>> ELSE <<>>)
       \o EncodeFields(r, Tail(fs))

EncodeDict(r) == <<LC>> \o EncodeFields(r, FieldOrder) \o <<RC>>

RECURSIVE EncodeItems(_)
EncodeItems(rs) ==
  IF rs = <<>> THEN <<>> ELSE EncodeDict(Head(rs)) \o EncodeItems(Tail(rs))

\* json.dump(self.data, f): the token stream of a list of dicts
JsonDump(rs) == <<LB>> \o EncodeItems(rs) \o <<RB>>

\* members of one object, from position i (just after its opening brace)
RECURSIVE ParseMembers(_, _, _)
ParseMembers(toks, i, acc) ==
  IF i > Len(toks) THEN [ok |-> FALSE, rec |-> acc, next |-> i]
  ELSE IF toks[i] = RC THEN [ok |-> TRUE, rec |-> acc, next |-> i + 1]
  ELSE IF /\ i + 1 <= Len(toks)
          /\ IsStr(toks[i])
          /\ IsStr(toks[i + 1])
       THEN ParseMembers(toks, i + 2, DictSet(acc, toks[i][2], toks[i + 1][2]))
       ELSE [ok |-> FALSE, rec |-> acc, next |-> i]

\* elements of the top-level array, from position i
RECURSIVE ParseItems(_, _, _)
ParseItems(toks, i, acc) ==
  IF i > Len(toks) THEN [ok |-> FALSE, val |-> <<>>]
  ELSE IF toks[i] = RB
       THEN [ok |-> i = Len(toks), val |-> IF i = Len(toks) THEN acc ELSE <<>>]
  ELSE IF toks[i] = LC
       THEN LET m == ParseMembers(toks, i + 1, EmptyDict)
            IN IF m.ok THEN ParseItems(toks, m.next, Append(acc, m.rec))
               ELSE [ok |-> FALSE, val |-> <<>>]
       ELSE [ok |-> FALSE, val |-> <<>>]

\* json.load(f): ok = FALSE stands for json.JSONDecodeError
JsonLoad(toks) ==
  IF Len(toks) = 0 \/ toks[1] # LB THEN [ok |-> FALSE, val |-> <<>>]
  ELSE ParseItems(toks, 2, <<>>)

NoFile == [exists |-> FALSE, text |-> <<>>]
FileOf(toks) == [exists |-> TRUE, text |-> toks]

(* ------------------------------- state -------------------------------- *)
VARIABLES
  data,      \* self.data of store A
  file,      \* the backing file
  clock,     \* what datetime.now() reads
  caller,    \* references into store A held by the calling code
  ret,       \* the last call and what it returned
  dataB,     \* self.data of the store just constructed on the same path
  origin,    \* what the file held when store A was constructed
  added,     \* entries passed to add_precinct so far
  onlyAdds,  \* store A started empty and saw only add_precinct calls with fresh ids
  faults,    \* writes that failed so far
  writes,    \* writes of the calling code through kept references so far
  th,        \* where each thread stands in the call it is making
  session_state,      \* st.session_state of one canvassing session
  widgets,            \* what the page of that session shows after its last run
  interaction_notes   \* address ids with a "not-home" row in interaction_notes

storeVars ==
  <<data, file, clock, caller, ret, dataB, origin, added, onlyAdds, faults, writes, th>>

appVars == <<session_state, widgets, interaction_notes>>

vars == <<storeVars, appVars>>

IdsOf(rs) == {rs[i].precinct_id : i \in 1..Len(rs)}

(* ----------------------------- the store ------------------------------ *)
\* _load with a bare except: any failure gives the empty list
load_lenient(f) ==
  IF f.exists /\ JsonLoad(f.text).ok THEN JsonLoad(f.text)
  ELSE [ok |-> TRUE, val |-> <<>>]

\* _load: FileNotFoundError gives the empty list, a parse error propagates
load(f) == IF f.exists THEN JsonLoad(f.text) ELSE [ok |-> TRUE, val |-> <<>>]

\* outcomes of open(..., 'w') followed by json.dump: the write completes,
\* open raises and the file stays as it was, or open truncates the file and
\* the dump stops early.  A dump can stop after any token; the model follows
\* the two extreme cuts.
OkWrite == "ok"
WriteOutcomes == {"ok", "open_fails", "nothing_written", "last_token_missing"}

\* _save opening the file in append mode
save_append(d, f, w) ==
  LET full == JsonDump(d)
  IN CASE w = "ok" -> FileOf(f.text \o full)
       [] w = "open_fails" -> f
       [] w = "nothing_written" -> FileOf(f.text)
       [] OTHER -> FileOf(f.text \o SubSeq(full, 1, Len(full) - 1))

\* _save: the file after the write attempt with outcome w
save(d, f, w) ==
  LET full == JsonDump(d)
  IN CASE w = "ok" -> FileOf(full)
       [] w = "open_fails" -> f
       [] w = "nothing_written" -> FileOf(<<>>)
       [] OTHER -> FileOf(SubSeq(full, 1, Len(full) - 1))

\* the only writes that fail are those the fault budget allows
WritePossible(w) == w # "ok" => faults < MaxFaults

NoRefs == [list |-> FALSE, rec |-> None]

\* the calling code keeps a returned reference only while it may still write
\* through it
MayKeep(keep) == keep => writes < MaxCallerWrites

\* the references left to the calling code after a write of its own
AfterWrite(c) == IF writes + 1 < MaxCallerWrites THEN c ELSE NoRefs

\* a lookup that finds nothing
get_precinct_none(d, precinct_id) == None

\* a lookup whose default is the first dict instead of None
get_precinct_any(d, precinct_id) ==
  LET hits == {i \in 1..Len(d) : d[i].precinct_id = precinct_id}
  IN IF hits = {} THEN (IF d = <<>> THEN None ELSE 1)
     ELSE CHOOSE i \in hits : \A j \in hits : i <= j

\* a lookup that returns the last match
get_precinct_last(d, precinct_id) ==
  LET hits == {i \in 1..Len(d) : d[i].precinct_id = precinct_id}
  IN IF hits = {} THEN None
     ELSE CHOOSE i \in hits : \A j \in hits : i >= j

\* get_precinct: the first dict with that id (as its position), or None
get_precinct(d, precinct_id) ==
  LET hits == {i \in 1..Len(d) : d[i].precinct_id = precinct_id}
  IN IF hits = {} THEN None
     ELSE CHOOSE i \in hits : \A j \in hits : i <= j

\* list.insert(0, entry)
prepended(d, entry) == <<entry>> \o d

\* self.data.append(precinct_entry)
appended(d, entry) == Append(d, entry)

\* a filter that drops the first match only
filtered_first(d, precinct_id) ==
  LET i == get_precinct(d, precinct_id)
  IN IF i = None THEN d ELSE SubSeq(d, 1, i - 1) \o SubSeq(d, i + 1, Len(d))

\* [p for p in self.data if p['precinct_id'] != precinct_id]
filtered(d, precinct_id) == SelectSeq(d, LAMBDA p : p.precinct_id # precinct_id)

\* the length test written with <=
shrunk_or_same(d1, original_len) == Len(d1) <= original_len

\* len(self.data) < original_len
shrunk(d1, original_len) == Len(d1) < original_len

\* a failed write swallowed and reported as False
Result_swallowed(w) == IF w = "ok" THEN "True" ELSE "False"

\* a failed write ignored
Result_ignored(w) == "True"

\* what the call gives once _save was called: True, or the error _save raised
Result(w) == IF w = "ok" THEN "True" ELSE "error"

\* a call and its outcome; pos is the position of the dict get_precinct
\* returned, arg the dict add_precinct or update_precinct was given
Call(op, id, result, saved) ==
  [op |-> op, id |-> id, result |-> result, saved |-> saved,
   pos |-> None, arg |-> EmptyDict]

Entries ==
  [precinct_id : Ids, name : {"x"}]
    \cup [precinct_id : Ids, name : {"x"}, last_updated : {CallerStamp}]

Partials ==
  {EmptyDict} \cup [name : {"y"}] \cup [precinct_id : Ids]
    \cup [last_updated : {CallerStamp}] \cup [precinct_id : Ids, name : {"y"}]

Threads == 1..NumThreads

\* a thread outside any call; inside one, pc is the next step, id and arg are
\* the arguments, ref is the position in self.data of the dict it works on;
\* calls counts the calls it has begun
Idle ==
  [pc |-> "idle", op |-> "", id |-> "", arg |-> EmptyDict, ref |-> None, calls |-> 0]

\* documents the backing file may hold when store A is constructed
InitDocs ==
  { <<>>,
    <<[precinct_id |-> "p1", name |-> "x"]>>,
    <<[precinct_id |-> "p2", name |-> "x", last_updated |-> CallerStamp],
      [precinct_id |-> "p1", name |-> "y"]>>,
    <<[precinct_id |-> "p1", name |-> "x"],
      [precinct_id |-> "p2", name |-> "x"],
      [precinct_id |-> "p1", name |-> "y", last_updated |-> CallerStamp]>> }

HasDuplicates(rs) ==
  \E i, j \in 1..Len(rs) : i # j /\ rs[i].precinct_id = rs[j].precinct_id

(* ----------------------- the canvassing session ----------------------- *)
\* Text is a sequence of one-character strings, so that formatting an option
\* and splitting it again are computed.
Placeholder ==
  <<"S", "e", "l", "e", "c", "t", " ", "a", " ", "p", "r", "e", "c", "i", "n", "c", "t">>

\* the PRECINCT column of the shapefile, as str() prints each cell
PrecinctColumn == << <<"1">>, <<"2">>, <<"2", ".", "5">> >>

\* load_precinct_data: one precinct per row with a non-empty id
load_precinct_data ==
  [k \in 1..Len(PrecinctColumn) |-> [id |-> PrecinctColumn[k]]]

\* f"Precinct {p['id']}"
Label(id) == <<"P", "r", "e", "c", "i", "n", "c", "t", " ">> \o id

precinct_options ==
  <<Placeholder>> \o [k \in 1..Len(load_precinct_data) |-> Label(load_precinct_data[k].id)]

\* str.split(): the words between runs of blanks
RECURSIVE Split(_, _, _)
Split(s, word, acc) ==
  IF s = <<>> THEN (IF word = <<>> THEN acc ELSE Append(acc, word))
  ELSE IF Head(s) = " "
       THEN Split(Tail(s), <<>>, IF word = <<>> THEN acc ELSE Append(acc, word))
       ELSE Split(Tail(s), Append(word, Head(s)), acc)

\* selected_option.split()[1]
PrecinctOf(option) == Split(option, <<>>, <<>>)[2]

DigitChars == <<"0", "1", "2", "3", "4", "5", "6", "7", "8", "9">>

IsDigit(c) == \E k \in 1..Len(DigitChars) : DigitChars[k] = c

DigitValue(c) == (CHOOSE k \in 1..Len(DigitChars) : DigitChars[k] = c) - 1

RECURSIVE Decimal(_, _)
Decimal(s, acc) ==
  IF s = <<>> THEN acc ELSE Decimal(Tail(s), 10 * acc + DigitValue(Head(s)))

\* int(text): an optional sign and then digits only, ValueError otherwise
ParseInt(s) ==
  LET signed == s # <<>> /\ Head(s) \in {"-", "+"}
      digits == IF signed THEN Tail(s) ELSE s
  IN IF digits # <<>> /\ \A k \in 1..Len(digits) : IsDigit(digits[k])
     THEN [ok |-> TRUE,
           val |-> IF signed /\ Head(s) = "-" THEN 0 - Decimal(digits, 0)
                   ELSE Decimal(digits, 0)]
     ELSE [ok |-> FALSE, val |-> 0]

SampleCap == 20

\* generate_sample_addresses: min(20, int(precinct_id) * 2) addresses with ids
\* 1, 2, ...; int() raises on an id that is not an integer literal
generate_sample_addresses(precinct_id) ==
  LET n == ParseInt(precinct_id)
      count == IF n.val * 2 < SampleCap THEN n.val * 2 ELSE SampleCap
  IN IF ~n.ok THEN [raised |-> TRUE, val |-> <<>>]
     ELSE [raised |-> FALSE,
           val |-> [k \in 1..count |-> [id |-> k, precinct_id |-> precinct_id]]]

\* load_precinct_addresses where the voter file is absent (load_voter_data
\* returns []): the body falls back to the sample addresses, and so does the
\* except clause when the body raised
load_precinct_addresses(precinct_id) ==
  LET tried == generate_sample_addresses(precinct_id)
  IN IF tried.raised THEN generate_sample_addresses(precinct_id) ELSE tried

Tabs == {"Home", "Demographics", "Election History", "Stats", "Settings"}

\* address.get('id', i): every loaded address has an id
address_id(addresses, i) == addresses[i].id

AddressIds(addresses) == {address_id(addresses, i) : i \in 1..Len(addresses)}

NoButtons == {}

\* the buttons the address loop of the Home tab puts on the page
Rendered(ss, option) ==
  IF ss.current_tab = "Home" /\ option # Placeholder
     /\ ss.selected_precinct = PrecinctOf(option) /\ ss.addresses # <<>>
  THEN [option |-> option,
        todo |-> AddressIds(ss.addresses) \ ss.visited_addresses,
        seen |-> AddressIds(ss.addresses) \cap ss.visited_addresses]
  ELSE [option |-> option, todo |-> NoButtons, seen |-> NoButtons]

\* one run of the script on the Home tab with no button pressed, with the run
\* that st.rerun() starts after a precinct change
HomeRun(ss, option) ==
  IF option = Placeholder THEN [ss |-> ss, page |-> Rendered(ss, option)]
  ELSE LET precinct_id == PrecinctOf(option)
           loaded == load_precinct_addresses(precinct_id)
           chosen == [ss EXCEPT !.selected_precinct = precinct_id]
           fresh == [chosen EXCEPT !.addresses = loaded.val,
                                   !.visited_addresses = {}]
       IN IF ss.selected_precinct # precinct_id
          THEN IF loaded.raised
               THEN [ss |-> chosen,
                     page |-> [option |-> option, todo |-> NoButtons,
                               seen |-> NoButtons]]
               ELSE [ss |-> fresh, page |-> Rendered(fresh, option)]
          ELSE [ss |-> ss, page |-> Rendered(ss, option)]

\* selected_precinct is None: no precinct has the empty id
NoPrecinct == <<>>

\* lines 428-439: the session state of a new session
AppInit ==
  /\ session_state = [selected_precinct |-> NoPrecinct, addresses |-> <<>>,
                      visited_addresses |-> {}, current_tab |-> "Home",
                      selected_address_id |-> None]
  /\ widgets = [option |-> Placeholder, todo |-> NoButtons, seen |-> NoButtons]
  /\ interaction_notes = {}

\* the volunteer picks another entry of the precinct selectbox
SelectPrecinct(option) ==
  /\ session_state.current_tab = "Home"
  /\ option # widgets.option
  /\ LET run == HomeRun(session_state, option)
     IN /\ session_state' = run.ss
        /\ widgets' = run.page
  /\ UNCHANGED <<storeVars, interaction_notes>>

\* a press on one of the three buttons of an address not yet visited
Pressed(id) ==
  /\ session_state.current_tab = "Home"
  /\ widgets.option # Placeholder
  /\ session_state.selected_precinct = PrecinctOf(widgets.option)
  /\ session_state.addresses # <<>>
  /\ id \in widgets.todo
  /\ \E i \in 1..Len(session_state.addresses) :
        /\ address_id(session_state.addresses, i) = id
        /\ id \notin session_state.visited_addresses

Contact(id) ==
  /\ Pressed(id)
  /\ session_state' = [session_state EXCEPT
                         !.selected_address_id = id,
                         !.visited_addresses = @ \cup {id}]
  /\ widgets' = Rendered(session_state', widgets.option)
  /\ UNCHANGED <<storeVars, interaction_notes>>

NotHome(id) ==
  /\ Pressed(id)
  /\ session_state' = [session_state EXCEPT !.visited_addresses = @ \cup {id}]
  /\ interaction_notes' = interaction_notes \cup {id}
  /\ widgets' = Rendered(session_state', widgets.option)
  /\ UNCHANGED storeVars

Skip(id) ==
  /\ Pressed(id)
  /\ session_state' = [session_state EXCEPT !.visited_addresses = @ \cup {id}]
  /\ widgets' = Rendered(session_state', widgets.option)
  /\ UNCHANGED <<storeVars, interaction_notes>>

\* "View Notes" on a visited address
ViewNotes(id) ==
  /\ session_state.current_tab = "Home"
  /\ id \in widgets.seen
  /\ id # session_state.selected_address_id
  /\ session_state' = [session_state EXCEPT !.selected_address_id = id]
  /\ widgets' = Rendered(session_state', widgets.option)
  /\ UNCHANGED <<storeVars, interaction_notes>>

\* the sidebar radio: away from Home the selectbox is not on the page, and it
\* comes back showing its first option
Navigate(tab) ==
  /\ tab # session_state.current_tab
  /\ session_state' = [session_state EXCEPT !.current_tab = tab]
  /\ widgets' = Rendered(session_state', Placeholder)
  /\ UNCHANGED <<storeVars, interaction_notes>>

\* "Sync Data": the script runs again with the same widget values
SyncData ==
  /\ IF session_state.current_tab = "Home"
     THEN LET run == HomeRun(session_state, widgets.option)
          IN /\ session_state' = run.ss
             /\ widgets' = run.page
     ELSE UNCHANGED <<session_state, widgets>>
  /\ UNCHANGED <<storeVars, interaction_notes>>

\* __init__: store A is constructed on the path and loads what is there
Init ==
  /\ file \in {NoFile} \cup {FileOf(JsonDump(doc)) : doc \in InitDocs}
  /\ LET r == load(file)
     IN /\ r.ok
        /\ data = r.val
        /\ origin = IF ~file.exists THEN "absent"
                    ELSE IF HasDuplicates(r.val) THEN "duplicates" ELSE "unique"
        /\ onlyAdds = (r.val = <<>>)
  /\ clock = 0
  /\ caller = NoRefs
  /\ ret = Call("init", "", "ok", FALSE)
  /\ dataB = <<>>
  /\ added = <<>>
  /\ faults = 0
  /\ writes = 0
  /\ th = [t \in Threads |-> Idle]
  /\ AppInit

\* get_all_precincts returns the list object self.data itself
get_all_precincts(keep) ==
  /\ MayKeep(keep)
  /\ caller' = [caller EXCEPT !.list = keep]
  /\ ret' = Call("get_all", "", "list", FALSE)
  /\ dataB' = <<>>
  /\ UNCHANGED <<data, file, clock, origin, added, onlyAdds, faults, writes, th, appVars>>

\* a get_precinct that reloads the file before it looks
get_reloading(precinct_id, keep) ==
  LET r == load(file)
      d == IF r.ok THEN r.val ELSE <<>>
      p == get_precinct(d, precinct_id)
  IN /\ MayKeep(keep)
     /\ data' = d
     /\ caller' = IF keep THEN [caller EXCEPT !.rec = p] ELSE caller
     /\ ret' = [Call("get", precinct_id, IF p = None THEN "None" ELSE "found", FALSE)
                 EXCEPT !.pos = p]
     /\ dataB' = <<>>
     /\ UNCHANGED <<file, clock, origin, added, onlyAdds, faults, writes, th, appVars>>

\* the public get_precinct call: it returns the stored dict object itself
get(precinct_id, keep) ==
  LET p == get_precinct(data, precinct_id)
  IN /\ MayKeep(keep)
     /\ caller' = IF keep THEN [caller EXCEPT !.rec = p] ELSE caller
     /\ ret' = [Call("get", precinct_id, IF p = None THEN "None" ELSE "found", FALSE)
                 EXCEPT !.pos = p]
     /\ dataB' = <<>>
     /\ UNCHANGED <<data, file, clock, origin, added, onlyAdds, faults, writes, th, appVars>>

update_precinct(precinct_id, updates, w) ==
  LET precinct == get_precinct(data, precinct_id)
  IN /\ IF precinct # None
        THEN LET merged == DictUpdate(data[precinct], updates)
                 d1 == [data EXCEPT
                          ![precinct] = DictSet(merged, "last_updated", IsoFormat(clock))]
             IN /\ WritePossible(w)
                /\ data' = d1
                /\ file' = save(d1, file, w)
                /\ faults' = IF w = "ok" THEN faults ELSE faults + 1
                /\ ret' = [Call("update", precinct_id, Result(w), TRUE)
                            EXCEPT !.arg = updates]
        ELSE /\ ret' = [Call("update", precinct_id, "False", FALSE)
                         EXCEPT !.arg = updates]
             /\ UNCHANGED <<data, file, faults>>
     /\ dataB' = <<>>
     /\ added' = <<>>
     /\ onlyAdds' = FALSE
     /\ UNCHANGED <<clock, caller, origin, writes, th, appVars>>

\* the entry is a dict object of the caller; the store stamps and keeps that
\* very object, so a caller that keeps it holds a stored dict
add_precinct(precinct_entry, keep, w) ==
  /\ MayKeep(keep)
  /\ IF get_precinct(data, precinct_entry.precinct_id) = None
     THEN LET d1 == appended(data,
                      DictSet(precinct_entry, "last_updated", IsoFormat(clock)))
          IN /\ Len(data) < MaxRecs
             /\ WritePossible(w)
             /\ data' = d1
             /\ caller' = IF keep THEN [caller EXCEPT !.rec = Len(d1)] ELSE caller
             /\ file' = save(d1, file, w)
             /\ faults' = IF w = "ok" THEN faults ELSE faults + 1
             /\ ret' = [Call("add", precinct_entry.precinct_id, Result(w), TRUE)
                         EXCEPT !.arg = precinct_entry]
     ELSE /\ ret' = [Call("add", precinct_entry.precinct_id, "False", FALSE)
                      EXCEPT !.arg = precinct_entry]
          /\ UNCHANGED <<data, file, caller, faults>>
  /\ dataB' = <<>>
  /\ onlyAdds' = (onlyAdds /\ precinct_entry.precinct_id \notin IdsOf(added))
  /\ added' = IF onlyAdds' THEN Append(added, precinct_entry) ELSE <<>>
  /\ UNCHANGED <<clock, origin, writes, th, appVars>>

\* position, in the filtered list, of the dict at position i of the old one
Survivor(d, i, precinct_id) ==
  IF i = None \/ d[i].precinct_id = precinct_id THEN None
  ELSE Cardinality({j \in 1..i : d[j].precinct_id # precinct_id})

\* the comprehension binds self.data to a new list object in every case, so a
\* list the caller got earlier is no longer the store's
delete_precinct(precinct_id, w) ==
  LET original_len == Len(data)
      d1 == filtered(data, precinct_id)
  IN /\ data' = d1
     /\ caller' = [list |-> FALSE, rec |-> Survivor(data, caller.rec, precinct_id)]
     /\ IF shrunk(d1, original_len)
          THEN /\ WritePossible(w)
               /\ file' = save(d1, file, w)
               /\ faults' = IF w = "ok" THEN faults ELSE faults + 1
               /\ ret' = Call("delete", precinct_id, Result(w), TRUE)
          ELSE /\ ret' = Call("delete", precinct_id, "False", FALSE)
               /\ UNCHANGED <<file, faults>>
     /\ dataB' = <<>>
     /\ added' = <<>>
     /\ onlyAdds' = FALSE
     /\ UNCHANGED <<clock, origin, writes, th, appVars>>

\* PrecinctStrategyEngine(filepath) once more, on the same path
ConstructB ==
  LET r == load(file)
  IN /\ dataB' = r.val
     /\ ret' = Call("construct", "", IF r.ok THEN "ok" ELSE "error", FALSE)
     /\ UNCHANGED <<data, file, clock, caller, origin, added, onlyAdds, faults, writes, th, appVars>>

\* time passes between calls
Tick ==
  /\ clock < MaxClock
  /\ clock' = clock + 1
  /\ UNCHANGED <<data, file, caller, ret, dataB, origin, added, onlyAdds, faults, writes, th, appVars>>

\* what another program may leave at the path: no file, a document cut
\* short, another list document
ForeignFiles ==
  {NoFile,
   FileOf(<<LB, LC, Str("precinct_id")>>),
   FileOf(JsonDump(<<[precinct_id |-> "p2", name |-> "x"]>>))}

\* the file is changed from outside the store
ExternalEdit(f) ==
  /\ f # file
  /\ file' = f
  /\ ret' = Call("external", "", "", FALSE)
  /\ dataB' = <<>>
  /\ UNCHANGED <<data, clock, caller, origin, added, onlyAdds, faults, writes, th, appVars>>

(* ------------------------- what the caller does ----------------------- *)
\* a step of the calling code that writes through a reference it holds
CallerStep ==
  /\ writes < MaxCallerWrites
  /\ writes' = writes + 1
  /\ ret' = Call("caller", "", "", FALSE)
  /\ dataB' = <<>>
  /\ added' = <<>>
  /\ onlyAdds' = FALSE
  /\ UNCHANGED <<file, clock, origin, faults, th, appVars>>

\* returned.append(entry), on the list got from get_all_precincts
CallerAppend(entry) ==
  /\ caller.list
  /\ Len(data) < MaxRecs
  /\ data' = Append(data, entry)
  /\ caller' = AfterWrite(caller)
  /\ CallerStep

\* del returned[i]
CallerRemove(i) ==
  /\ caller.list
  /\ i \in 1..Len(data)
  /\ data' = SubSeq(data, 1, i - 1) \o SubSeq(data, i + 1, Len(data))
  /\ caller' = AfterWrite([caller EXCEPT !.rec = IF @ = i THEN None
                                                 ELSE IF @ > i THEN @ - 1 ELSE @])
  /\ CallerStep

\* returned[i] = entry
CallerReplace(i, entry) ==
  /\ caller.list
  /\ i \in 1..Len(data)
  /\ data' = [data EXCEPT ![i] = entry]
  /\ caller' = AfterWrite([caller EXCEPT !.rec = IF @ = i THEN None ELSE @])
  /\ CallerStep

\* returned[i][field] = value
CallerSetField(i, field, value) ==
  /\ caller.list
  /\ i \in 1..Len(data)
  /\ data' = [data EXCEPT ![i] = DictSet(@, field, value)]
  /\ caller' = AfterWrite(caller)
  /\ CallerStep

\* record[field] = value, on the dict got from get_precinct or given to add_precinct
CallerSetRecField(field, value) ==
  /\ caller.rec # None
  /\ data' = [data EXCEPT ![caller.rec] = DictSet(@, field, value)]
  /\ caller' = AfterWrite(caller)
  /\ CallerStep

FieldValues == {<<"precinct_id", i>> : i \in Ids} \cup {<<"name", "y">>}

(* ------------------- the calls, statement by statement ---------------- *)
\* Threads sharing one store: each action is one statement of a method, and
\* another thread may run between any two of them.
Others(t, f) == [o \in Threads |-> IF o = t THEN f ELSE th[o]]

Return(t, op, id, arg, result, saved) ==
  /\ ret' = [Call(op, id, result, saved) EXCEPT !.arg = arg]
  /\ th' = Others(t, [Idle EXCEPT !.calls = th[t].calls])

\* a thread that may begin a call; the call then comes out of pc = "idle"
MayCall(t) == th[t].pc = "idle" /\ th[t].calls < MaxCalls

Begin(t, pc, op, id, arg, ref) ==
  [pc |-> pc, op |-> op, id |-> id, arg |-> arg, ref |-> ref,
   calls |-> th[t].calls + 1]

\* add_precinct, line 37: the existence test
AddCheck(t, precinct_entry) ==
  /\ MayCall(t)
  /\ Len(data) + Cardinality({o \in Threads : th[o].pc = "append"}) < MaxRecs
  /\ IF get_precinct(data, precinct_entry.precinct_id) = None
       THEN /\ th' = Others(t, Begin(t, "append", "add", precinct_entry.precinct_id,
                                      precinct_entry, None))
            /\ UNCHANGED ret
       ELSE /\ ret' = [Call("add", precinct_entry.precinct_id, "False", FALSE)
                        EXCEPT !.arg = precinct_entry]
            /\ th' = Others(t, Begin(t, "idle", "", "", EmptyDict, None))
  /\ dataB' = <<>>
  /\ added' = <<>>
  /\ onlyAdds' = FALSE
  /\ UNCHANGED <<data, file, clock, caller, origin, faults, writes, appVars>>

\* add_precinct, lines 38-39: the stamp and the append
AddAppend(t) ==
  /\ th[t].pc = "append"
  /\ data' = appended(data, DictSet(th[t].arg, "last_updated", IsoFormat(clock)))
  /\ th' = Others(t, [th[t] EXCEPT !.pc = "open"])
  /\ UNCHANGED <<file, clock, caller, ret, dataB, origin, added, onlyAdds, faults, writes, appVars>>

\* update_precinct, lines 28-29: the lookup
UpdateFind(t, precinct_id, updates) ==
  /\ MayCall(t)
  /\ LET precinct == get_precinct(data, precinct_id)
     IN IF precinct # None
          THEN /\ th' = Others(t, Begin(t, "merge", "update", precinct_id,
                                         updates, precinct))
               /\ UNCHANGED ret
          ELSE /\ ret' = [Call("update", precinct_id, "False", FALSE)
                           EXCEPT !.arg = updates]
               /\ th' = Others(t, Begin(t, "idle", "", "", EmptyDict, None))
  /\ dataB' = <<>>
  /\ added' = <<>>
  /\ onlyAdds' = FALSE
  /\ UNCHANGED <<data, file, clock, caller, origin, faults, writes, appVars>>

\* update_precinct, line 30: the merge, on the dict found (which another
\* thread may have taken out of the list since)
UpdateMerge(t) ==
  /\ th[t].pc = "merge"
  /\ data' = IF th[t].ref = None THEN data
             ELSE [data EXCEPT ![th[t].ref] = DictUpdate(@, th[t].arg)]
  /\ th' = Others(t, [th[t] EXCEPT !.pc = "stamp"])
  /\ UNCHANGED <<file, clock, caller, ret, dataB, origin, added, onlyAdds, faults, writes, appVars>>

\* update_precinct, line 31: the stamp
UpdateStamp(t) ==
  /\ th[t].pc = "stamp"
  /\ data' = IF th[t].ref = None THEN data
             ELSE [data EXCEPT ![th[t].ref] = DictSet(@, "last_updated", IsoFormat(clock))]
  /\ th' = Others(t, [th[t] EXCEPT !.pc = "open"])
  /\ UNCHANGED <<file, clock, caller, ret, dataB, origin, added, onlyAdds, faults, writes, appVars>>

\* delete_precinct, lines 45-47: the new list is built and bound, and its
\* length compared; the dicts other threads work on move or leave the list
DeleteFilter(t, precinct_id) ==
  /\ MayCall(t)
  /\ LET original_len == Len(data)
         d1 == filtered(data, precinct_id)
         moved == [o \in Threads |->
                     [th[o] EXCEPT !.ref = Survivor(data, th[o].ref, precinct_id)]]
     IN /\ data' = d1
        /\ IF shrunk(d1, original_len)
             THEN /\ th' = [moved EXCEPT ![t] =
                              Begin(t, "open", "delete", precinct_id, EmptyDict, None)]
                  /\ UNCHANGED ret
             ELSE /\ ret' = Call("delete", precinct_id, "False", FALSE)
                  /\ th' = [moved EXCEPT ![t] =
                              Begin(t, "idle", "", "", EmptyDict, None)]
  /\ caller' = [list |-> FALSE, rec |-> Survivor(data, caller.rec, precinct_id)]
  /\ dataB' = <<>>
  /\ added' = <<>>
  /\ onlyAdds' = FALSE
  /\ UNCHANGED <<file, clock, origin, faults, writes, appVars>>

\* _save, line 18: open(..., 'w') truncates the file
SaveOpen(t) ==
  /\ th[t].pc = "open"
  /\ file' = FileOf(<<>>)
  /\ th' = Others(t, [th[t] EXCEPT !.pc = "dump"])
  /\ UNCHANGED <<data, clock, caller, ret, dataB, origin, added, onlyAdds, faults, writes, appVars>>

\* what a file holds after text was written from its start
Overwritten(old, text) == text \o SubSeq(old, Len(text) + 1, Len(old))

\* _save, line 19 and the end of the with block: the list as it is now is
\* dumped and reaches the file from offset 0 when the file is closed; then the
\* method returns True
SaveDump(t) ==
  /\ th[t].pc = "dump"
  /\ file' = FileOf(Overwritten(file.text, JsonDump(data)))
  /\ Return(t, th[t].op, th[t].id, th[t].arg, "True", TRUE)
  /\ dataB' = <<>>
  /\ UNCHANGED <<data, clock, caller, origin, added, onlyAdds, faults, writes, appVars>>

(* --------------------------- specifications --------------------------- *)
\* the store used through its methods only, on a disk that takes every write
Next ==
  \/ \E e \in Entries : add_precinct(e, FALSE, OkWrite)
  \/ \E i \in Ids, u \in Partials : update_precinct(i, u, OkWrite)
  \/ \E i \in Ids : delete_precinct(i, OkWrite)
  \/ get_all_precincts(FALSE)
  \/ \E i \in Ids : get(i, FALSE)
  \/ ConstructB
  \/ Tick

Spec == Init /\ [][Next]_vars

\* the entries and mappings tried on a failing disk and on a file that
\* other programs change
EntriesIO == [precinct_id : Ids, name : {"x"}]
PartialsIO == {[name |-> "y"], [last_updated |-> CallerStamp], [precinct_id |-> "p2"]}

\* the same, on a disk whose writes may fail
NextIO ==
  \/ \E e \in EntriesIO, w \in WriteOutcomes : add_precinct(e, FALSE, w)
  \/ \E i \in Ids, u \in PartialsIO, w \in WriteOutcomes : update_precinct(i, u, w)
  \/ \E i \in Ids, w \in WriteOutcomes : delete_precinct(i, w)
  \/ get_all_precincts(FALSE)
  \/ \E i \in Ids : get(i, FALSE)
  \/ ConstructB
  \/ Tick

SpecIO == Init /\ [][NextIO]_vars

\* the store on a reliable disk, and a file that other programs may change
NextExt ==
  \/ \E e \in EntriesIO : add_precinct(e, FALSE, OkWrite)
  \/ \E i \in Ids, u \in PartialsIO : update_precinct(i, u, OkWrite)
  \/ \E i \in Ids : delete_precinct(i, OkWrite)
  \/ get_all_precincts(FALSE)
  \/ \E i \in Ids : get(i, FALSE)
  \/ ConstructB
  \/ Tick
  \/ \E f \in ForeignFiles : ExternalEdit(f)

SpecExt == Init /\ [][NextExt]_vars

\* threads that call the store at the same time, and readers
NextConc ==
  \/ \E t \in Threads, e \in EntriesIO : AddCheck(t, e)
  \/ \E t \in Threads : AddAppend(t)
  \/ \E t \in Threads, i \in Ids, u \in PartialsIO : UpdateFind(t, i, u)
  \/ \E t \in Threads : UpdateMerge(t)
  \/ \E t \in Threads : UpdateStamp(t)
  \/ \E t \in Threads, i \in Ids : DeleteFilter(t, i)
  \/ \E t \in Threads : SaveOpen(t)
  \/ \E t \in Threads : SaveDump(t)
  \/ get_all_precincts(FALSE)
  \/ \E i \in Ids : get(i, FALSE)
  \/ ConstructB
  \/ Tick

SpecConc == Init /\ [][NextConc]_vars

\* a caller that keeps what the store returns and writes to it
NextAlias ==
  \/ \E e \in Entries, keep \in BOOLEAN : add_precinct(e, keep, OkWrite)
  \/ \E i \in Ids, u \in Partials : update_precinct(i, u, OkWrite)
  \/ \E i \in Ids : delete_precinct(i, OkWrite)
  \/ \E keep \in BOOLEAN : get_all_precincts(keep)
  \/ \E i \in Ids, keep \in BOOLEAN : get(i, keep)
  \/ ConstructB
  \/ Tick
  \/ \E e \in [precinct_id : Ids, name : {"x"}] : CallerAppend(e)
  \/ \E i \in 1..(MaxRecs + 1) : CallerRemove(i)
  \/ \E i \in 1..(MaxRecs + 1), e \in [precinct_id : Ids, name : {"x"}] :
        CallerReplace(i, e)
  \/ \E i \in 1..(MaxRecs + 1), fv \in FieldValues : CallerSetField(i, fv[1], fv[2])
  \/ \E fv \in FieldValues : CallerSetRecField(fv[1], fv[2])

SpecAlias == Init /\ [][NextAlias]_vars

\* one volunteer's session with the dashboard
AddressButtons == 1..4

NextApp ==
  \/ \E k \in 1..Len(precinct_options) : SelectPrecinct(precinct_options[k])
  \/ \E id \in AddressButtons : Contact(id)
  \/ \E id \in AddressButtons : NotHome(id)
  \/ \E id \in AddressButtons : Skip(id)
  \/ \E id \in AddressButtons : ViewNotes(id)
  \/ \E tab \in Tabs : Navigate(tab)
  \/ SyncData

\* the dashboard never constructs the store; its file stays absent
InitApp == Init /\ file = NoFile

SpecApp == InitApp /\ [][NextApp]_vars

(* ------------------------------- claims ------------------------------- *)
\* C1: a store that started from an absent file or from a file without
\* duplicate ids never holds two records with the same precinct_id, whatever
\* add_precinct, update_precinct and delete_precinct calls were made.
C1_UniqueIds == origin # "duplicates" => ~HasDuplicates(data)

\* C2: whenever a store operation has returned, with a result or with an
\* error, an existing backing file parses and decodes to the in-memory list.
C2_DiskAgreesWithMemory ==
  file.exists => (JsonLoad(file.text).ok /\ JsonLoad(file.text).val = data)

SameButStamp(stored, entry) ==
  /\ "last_updated" \in DOMAIN stored
  /\ stored = DictSet(entry, "last_updated", stored.last_updated)

\* C3: on a store that started empty, while only add_precinct was called and
\* the entries had pairwise distinct ids, every call returned True and the
\* list holds exactly the entries, once each, in the order they were added.
C3_AddsKeptInOrder ==
  onlyAdds =>
    /\ ret.op = "add" => ret.result = "True"
    /\ Len(data) = Len(added)
    /\ \A i \in 1..Len(added) : SameButStamp(data[i], added[i])

C3_Witness ==
  /\ onlyAdds
  /\ ret.op = "add"
  /\ Len(added) = 2
  /\ added[1].precinct_id = "p2"

\* C4: add_precinct with an id some stored record has returns False and
\* changes neither the list, nor any field of a stored record, nor the file.
C4_DuplicateAddIsNoOp ==
  [][\A e \in Entries :
       (e.precinct_id \in IdsOf(data) /\ add_precinct(e, FALSE, OkWrite))
         => (ret'.result = "False" /\ ~ret'.saved /\ data' = data /\ file' = file)]_vars

C4_Witness ==
  /\ ret.op = "add"
  /\ ret.result = "False"
  /\ ret.id \in IdsOf(data)
  /\ file.exists

\* C5: update_precinct with an id no stored record has returns False, creates
\* no record, applies nothing of the mapping, and leaves list and file alone.
C5_UpdateAbsentIsNoOp ==
  [][\A i \in Ids, u \in Partials :
       (i \notin IdsOf(data) /\ update_precinct(i, u, OkWrite))
         => (ret'.result = "False" /\ ~ret'.saved /\ data' = data /\ file' = file)]_vars

C5_Witness ==
  /\ ret.op = "update"
  /\ ret.result = "False"
  /\ ret.id \notin IdsOf(data)
  /\ data # <<>>

\* the record at position k took the fields of u and a stamp, and nothing else
OnlyNamedFieldsChanged(old, new, u) ==
  /\ DOMAIN new = (DOMAIN old) \cup (DOMAIN u) \cup {"last_updated"}
  /\ \A f \in (DOMAIN u) \ {"last_updated"} : new[f] = u[f]
  /\ \A f \in (DOMAIN old) \ ((DOMAIN u) \cup {"last_updated"}) : new[f] = old[f]

\* C6: a successful update_precinct(id, partial) changes, in one record with
\* that id, only the fields partial names and last_updated; the other
\* records, their number and their order stay as they were.
C6_UpdateFrame ==
  [][\A i \in Ids, u \in Partials :
       (update_precinct(i, u, OkWrite) /\ ret'.result = "True")
         => /\ Len(data') = Len(data)
            /\ \E k \in 1..Len(data) :
                 /\ data[k].precinct_id = i
                 /\ OnlyNamedFieldsChanged(data[k], data'[k], u)
                 /\ \A j \in 1..Len(data) : j # k => data'[j] = data[j]]_vars

C6_Witness ==
  /\ ret.op = "update"
  /\ ret.result = "True"
  /\ Len(data) = 3
  /\ \E k \in 1..3 : data[k] = [precinct_id |-> "p2", name |-> "y",
                                   last_updated |-> IsoFormat(1)]

\* C7: delete_precinct(id) on a store that holds the id returns True and
\* leaves exactly the records with another id, in their previous order, also
\* when several records had that id.
C7_DeleteRemovesAllMatches ==
  [][\A i \in Ids :
       (i \in IdsOf(data) /\ delete_precinct(i, OkWrite))
         => LET kept == {j \in 1..Len(data) : data[j].precinct_id # i}
            IN /\ ret'.result = "True"
               /\ Len(data') = Cardinality(kept)
               /\ \A j \in kept :
                    data'[Cardinality({m \in kept : m <= j})] = data[j]]_vars

C7_Witness ==
  /\ origin = "duplicates"
  /\ ret = Call("delete", "p1", "True", TRUE)
  /\ Len(data) = 1

\* C8: delete_precinct(id) on a store without that id returns False, does not
\* rewrite the file and leaves the list as it was; deleting the same id twice
\* in a row returns True and then False.
C8_DeleteAbsentIsNoOp ==
  [][\A i \in Ids :
       /\ (i \notin IdsOf(data) /\ delete_precinct(i, OkWrite))
            => (ret'.result = "False" /\ ~ret'.saved /\ data' = data /\ file' = file)
       /\ (ret = Call("delete", i, "True", TRUE) /\ delete_precinct(i, OkWrite))
            => ret'.result = "False"]_vars

C8_Witness ==
  /\ ret.op = "delete"
  /\ ret.result = "False"
  /\ ret.id \notin IdsOf(data)
  /\ data # <<>>
  /\ file.exists

\* C9: a fresh store constructed on the path of store A holds a list identical
\* to A's, in order and in every field value, and constructing it rewrites
\* neither the file nor any record of A.
C9_RoundTrip ==
  [][ConstructB =>
       /\ ret'.result = "ok"
       /\ dataB' = data
       /\ ~ret'.saved
       /\ file' = file
       /\ data' = data]_vars

C9_Witness ==
  /\ ret.op = "construct"
  /\ Len(dataB) = 2
  /\ \E i \in 1..2 : dataB[i] = [precinct_id |-> "p1", name |-> "y",
                                    last_updated |-> IsoFormat(1)]

\* a write of the calling code to the list get_all_precincts returned
ListWrite ==
  \/ \E e \in Entries : CallerAppend(e)
  \/ \E i \in 1..(MaxRecs + 1) : CallerRemove(i)
  \/ \E i \in 1..(MaxRecs + 1), e \in Entries : CallerReplace(i, e)
  \/ \E i \in 1..(MaxRecs + 1), fv \in FieldValues : CallerSetField(i, fv[1], fv[2])

\* C10: whatever the caller does to the value get_all_precincts returned, the
\* store's own sequence stays as it was.
C10_ListEncapsulated == [][ListWrite => data' = data]_vars

\* C11: get_precinct(id) returns the first record in list order with that id,
\* also when several records have it, returns None when no record has it, and
\* changes neither the store nor the file.
C11_GetReturnsFirstMatch ==
  [][\A i \in Ids :
       get(i, FALSE) =>
         /\ IF i \in IdsOf(data)
              THEN /\ ret'.result = "found"
                   /\ ret'.pos \in 1..Len(data)
                   /\ data[ret'.pos].precinct_id = i
                   /\ \A j \in 1..(ret'.pos - 1) : data[j].precinct_id # i
              ELSE ret'.result = "None" /\ ret'.pos = None
         /\ data' = data
         /\ file' = file
         /\ ~ret'.saved]_vars

C11_Witness ==
  /\ origin = "duplicates"
  /\ ret.op = "get"
  /\ ret.id = "p1"
  /\ ret.pos = 1
  /\ Len(data) = 3
  /\ data[3].precinct_id = "p1"

\* C12: constructing a store on a path without a file gives an empty list and
\* creates no file; constructing it on a file that does not parse fails with
\* an error instead of giving an empty store.
C12_ConstructionOutcomes ==
  [][ConstructB =>
       /\ ~file.exists => (ret'.result = "ok" /\ dataB' = <<>> /\ ~file'.exists)
       /\ (file.exists /\ ~JsonLoad(file.text).ok) => ret'.result = "error"]_vars

C12_Witness ==
  /\ ret.op = "construct"
  /\ ret.result = "error"
  /\ file.exists
  /\ file.text # <<>>

\* C17: get_all_precincts and get_precinct neither read nor write the file:
\* they leave it untouched and answer from memory, whatever the file holds.
C17_ReadsFromMemoryOnly ==
  [][/\ get_all_precincts(FALSE) => (file' = file /\ data' = data /\ ~ret'.saved)
     /\ \A i \in Ids :
          get(i, FALSE) =>
            /\ file' = file
            /\ data' = data
            /\ ~ret'.saved
            /\ (ret'.result = "found") = (i \in IdsOf(data))]_vars

C17_Witness ==
  /\ ret.op = "get"
  /\ ret.result = "found"
  /\ ~file.exists
  /\ data # <<>>

\* C13: when the file rewrite fails during add_precinct, update_precinct or
\* delete_precinct, the call raises (it returns neither True nor False) and
\* the list already holds the appended, merged or filtered records.
C13_WriteFailureRaises ==
  [][faults' # faults =>
       /\ ret'.result = "error"
       /\ ret'.op \in {"add", "update", "delete"}
       /\ ret'.op = "add" =>
            /\ ret'.id \notin IdsOf(data)
            /\ Len(data') = Len(data) + 1
            /\ SubSeq(data', 1, Len(data)) = data
            /\ SameButStamp(data'[Len(data')], ret'.arg)
       /\ ret'.op = "update" =>
            /\ Len(data') = Len(data)
            /\ \E k \in 1..Len(data) :
                 /\ data[k].precinct_id = ret'.id
                 /\ OnlyNamedFieldsChanged(data[k], data'[k], ret'.arg)
                 /\ \A j \in 1..Len(data) : j # k => data'[j] = data[j]
       /\ ret'.op = "delete" =>
            /\ ret'.id \in IdsOf(data)
            /\ ret'.id \notin IdsOf(data')
            /\ Len(data') < Len(data)]_vars

C13_Witness ==
  /\ ret.op = "update"
  /\ ret.result = "error"
  /\ ret.arg = [name |-> "y"]
  /\ \E k \in 1..Len(data) : data[k].precinct_id = ret.id /\ data[k].name = "y"
  /\ file.exists
  /\ ~JsonLoad(file.text).ok

\* C14: after a successful add_precinct or update_precinct the record added
\* or updated carries the clock reading of that call as last_updated, also
\* when the entry or the partial mapping brought a last_updated of its own.
C14_StampIsClockReading ==
  [][/\ \A e \in Entries :
          (add_precinct(e, FALSE, OkWrite) /\ ret'.result = "True")
            => /\ Len(data') = Len(data) + 1
               /\ data'[Len(data')].precinct_id = e.precinct_id
               /\ data'[Len(data')].last_updated = IsoFormat(clock)
     /\ \A i \in Ids, u \in Partials :
          (update_precinct(i, u, OkWrite) /\ ret'.result = "True")
            => \E k \in 1..Len(data) :
                 /\ data[k].precinct_id = i
                 /\ \A j \in 1..Len(data) : j # k => data'[j] = data[j]
                 /\ data'[k].last_updated = IsoFormat(clock)]_vars

C14_Witness ==
  /\ ret.op = "update"
  /\ ret.result = "True"
  /\ ret.arg = [last_updated |-> CallerStamp]
  /\ clock = 1
  /\ \E k \in 1..Len(data) :
       data[k] = [precinct_id |-> ret.id, name |-> "x", last_updated |-> IsoFormat(1)]

\* the time a last_updated string stands for
TimeOf(s) ==
  IF s = CallerStamp THEN 0 - 1 ELSE CHOOSE t \in 0..MaxClock : IsoFormat(t) = s

\* C15: a successful update_precinct on a record that has a last_updated
\* leaves it with a strictly greater one; a record that had none gets one.
C15_StampStrictlyIncreases ==
  [][\A i \in Ids, u \in Partials :
       (update_precinct(i, u, OkWrite) /\ ret'.result = "True")
         => \E k \in 1..Len(data) :
              /\ data[k].precinct_id = i
              /\ \A j \in 1..Len(data) : j # k => data'[j] = data[j]
              /\ "last_updated" \in DOMAIN data'[k]
              /\ "last_updated" \in DOMAIN data[k]
                   => TimeOf(data'[k].last_updated) > TimeOf(data[k].last_updated)]_vars

\* C16: whenever add_precinct, update_precinct or delete_precinct has
\* returned True, _save was called and the file holds the complete list as it
\* is after the mutation.
C16_PersistBeforeSuccess ==
  (ret.op \in {"add", "update", "delete"} /\ ret.result = "True")
    => /\ ret.saved
       /\ file.exists
       /\ JsonLoad(file.text) = [ok |-> TRUE, val |-> data]

C16_Witness ==
  /\ ret.op = "delete"
  /\ ret.result = "True"
  /\ faults = 1
  /\ data # <<>>

\* C20: of two successful update_precinct calls on the same id, one after the
\* other, the record with that id has the later call's value in every field
\* the later call names and the earlier call's value in every field only the
\* earlier call names, in memory and in the file.
C20_LastWriteWins ==
  [][\A i \in Ids, u2 \in Partials :
       ( /\ ret.op = "update" /\ ret.id = i /\ ret.result = "True"
         /\ update_precinct(i, u2, OkWrite)
         /\ ret'.result = "True" )
         => /\ \E k \in 1..Len(data) :
                 /\ data[k].precinct_id = i
                 /\ \A j \in 1..Len(data) : j # k => data'[j] = data[j]
                 /\ \A f \in (DOMAIN u2) \ {"last_updated"} : data'[k][f] = u2[f]
                 /\ \A f \in (DOMAIN ret.arg) \ ((DOMAIN u2) \cup {"last_updated"}) :
                      data'[k][f] = ret.arg[f]
            /\ file'.exists
            /\ JsonLoad(file'.text) = [ok |-> TRUE, val |-> data']]_vars

\* C18: while one thread runs a mutating call, a reader (of the shared store,
\* or one constructing a store from the same file) never meets a store in the
\* middle of a rewrite: the document it loads is complete.
C18_ReaderSeesCompleteDocument ==
  ret.op = "construct" => ret.result = "ok"

\* C19: of the threads calling add_precinct, update_precinct or
\* delete_precinct on one store, at most one at a time is between its
\* existence check and the end of its file rewrite.
C19_MutationsExclusive ==
  Cardinality({t \in Threads : th[t].pc # "idle"}) <= 1

\* a write of the calling code to the dict that get_precinct returned or that
\* it passed to add_precinct
RecordWrite == \E fv \in FieldValues : CallerSetRecField(fv[1], fv[2])

\* C21: the store's records change only through add_precinct, update_precinct
\* and delete_precinct: a write of the calling code to the record object that
\* get_precinct returned, or to the record object it passed to add_precinct,
\* leaves the store's records as they were.
C21_RecordsEncapsulated == [][RecordWrite => data' = data]_vars

\* ids of the addresses load_precinct_addresses gives for a precinct; none
\* where it gives no list
PrecinctAddressIds(precinct_id) ==
  LET loaded == load_precinct_addresses(precinct_id)
  IN IF loaded.raised THEN {} ELSE AddressIds(loaded.val)

VisitedWithinPrecinct(ss) ==
  ss.selected_precinct # NoPrecinct =>
    /\ ss.visited_addresses \subseteq PrecinctAddressIds(ss.selected_precinct)
    /\ ss.visited_addresses \subseteq AddressIds(ss.addresses)
    /\ Cardinality(ss.visited_addresses) <= Len(ss.addresses)

\* C22: after every step of a session the visited set holds only ids of
\* addresses of the selected precinct's list (so the visited count is at most
\* the number of addresses), a step that changes the selected precinct leaves
\* the visited set empty, and a step that keeps the selected precinct keeps
\* every visited address visited.
C22_SessionState ==
  [][/\ VisitedWithinPrecinct(session_state')
     /\ session_state'.selected_precinct # session_state.selected_precinct
          => session_state'.visited_addresses = {}
     /\ session_state'.selected_precinct = session_state.selected_precinct
          => session_state.visited_addresses \subseteq session_state'.visited_addresses
    ]_vars

====
